---- MODULE Spec2Model ----
(***************************************************************************)
(* Model of make_table.py: a catalogue is loaded, short_table scans it row *)
(* by row with row_is_valid, keeps at most 50 qualifying rows, and the     *)
(* result is written out with the header of the source.                    *)
(***************************************************************************)
EXTENDS Integers, Sequences, FiniteSets

VARIABLES
    file,        \* the catalogue on disk: names, dtype, rows, hdr
    lim,         \* the threshold handed to short_table
    pc,          \* position of the script: load, select, scan, write, done, crashed
    table,       \* the table returned by read_fits
    hdr,         \* the header returned by read_fits
    selection,   \* the table short_table is building
    idx,         \* 1-based position of the for loop in the source table
    evaluated,   \* history: the calls of row_is_valid, in order, with their outcome
    new_table,   \* the value short_table returned to the script
    hdul,        \* the HDUList handed to the writer
    output,      \* the catalogue written by hdul.writeto
    calls,       \* history: the steps of the script that have been entered
    failure      \* which step raised: none, load, predicate, write

vars == <<file, lim, pc, table, hdr, selection, idx, evaluated, new_table,
          hdul, output, calls, failure>>

----------------------------------------------------------------------------
(* Bounds of the model *)

\* thresholds range over DefaultLim - LimSpread .. DefaultLim + LimSpread
LimSpread == 1
\* flux values range over DefaultLim - ValSpread .. DefaultLim + ValSpread
ValSpread == 1
\* short tables have 0 .. MaxShort rows in their first block
MaxShort == 1
\* long tables have Cap - 1 .. Cap + MaxOver rows in their first block
MaxOver == 0
\* a block table ends with 0 .. MaxTail rows of a second kind
MaxTail == 1

----------------------------------------------------------------------------
(* Program constants *)

\* len(selection) >= 50
Cap == 50
\* lim = 10
DefaultLim == 10

Lims == (DefaultLim - LimSpread)..(DefaultLim + LimSpread)
Vals == (DefaultLim - ValSpread)..(DefaultLim + ValSpread)
Low  == DefaultLim - 1
High == DefaultLim + 1

\* a value that has not been assigned yet
None == [unset |-> TRUE]

Range(s) == {s[i] : i \in 1..Len(s)}

\* the columns row_is_valid reads, each `&` operand being the sequence of
\* the columns joined by `or` inside it, in evaluation order
Operands ==
    << <<"u_flux">>, <<"g_flux">>, <<"z_flux">>, <<"r_flux">>, <<"z_flux">>,
       <<"J_flux">>, <<"ch1_swire_flux", "ch1_servs_flux">>,
       <<"F_SPIRE_250">>, <<"F_PACS_160">>, <<"F_PACS_100">>, <<"K_flux">>,
       <<"F_MIPS_24">> >>

\* the catalogue's columns, in file order (i_rcs_flux is never read)
AllNames ==
    << "u_flux", "g_flux", "r_flux", "i_rcs_flux", "z_flux", "J_flux",
       "K_flux", "ch1_swire_flux", "ch1_servs_flux", "F_MIPS_24",
       "F_PACS_100", "F_PACS_160", "F_SPIRE_250" >>

----------------------------------------------------------------------------
(* row_is_valid *)

KeyError == [err |-> TRUE, val |-> FALSE]
Returned(b) == [err |-> FALSE, val |-> b]

\* row[c] > lim
Gt_lt(v, l) == v < l
Gt_ge(v, l) == v >= l
Gt(v, l) == v > l

\* (row[a] > lim) or (row[b] > lim): the right side is read only when the
\* left side is false; reading an absent column raises
RECURSIVE EvalOr(_, _, _, _)
EvalOr_eager(row, l, alts, k) ==
    IF \E j \in k..Len(alts) : alts[j] \notin DOMAIN row THEN KeyError
    ELSE Returned(\E j \in k..Len(alts) : Gt(row[alts[j]], l))
EvalOr(row, l, alts, k) ==
    IF alts[k] \notin DOMAIN row THEN KeyError
    ELSE IF Gt(row[alts[k]], l) THEN Returned(TRUE)
    ELSE IF k = Len(alts) THEN Returned(FALSE)
    ELSE EvalOr(row, l, alts, k + 1)

\* x1 & x2 & ...: every operand is evaluated, left to right
RECURSIVE EvalAnd(_, _, _, _)
EvalAnd(row, l, k, acc) ==
    IF k > Len(Operands) THEN Returned(acc)
    ELSE LET v == EvalOr(row, l, Operands[k], 1)
         IN  IF v.err THEN KeyError
             ELSE EvalAnd(row, l, k + 1, acc /\ v.val)

row_is_valid(row, l) == EvalAnd(row, l, 1, TRUE)

Outcome(r) == IF r.err THEN "KeyError" ELSE IF r.val THEN "True" ELSE "False"

----------------------------------------------------------------------------
(* The catalogues the loader may find *)

DTypeOf(c) == IF c \in {"u_flux", "g_flux", "r_flux", "i_rcs_flux", "z_flux"}
              THEN ">f4" ELSE ">f8"

\* the schema with the columns in `absent` left out
RECURSIVE NamesWithout(_, _)
NamesWithout(names, absent) ==
    IF names = <<>> THEN <<>>
    ELSE IF Head(names) \in absent THEN NamesWithout(Tail(names), absent)
    ELSE <<Head(names)>> \o NamesWithout(Tail(names), absent)

Schemas == {NamesWithout(AllNames, {})}
           \cup {NamesWithout(AllNames, {c}) : c \in Range(AllNames)}

\* rows that differ from a uniform row in at most one column and one of
\* the two ch1 columns
UniformRows(names) ==
    { [c \in Range(names) |->
          IF c = c1 THEN d1 ELSE IF c = c2 THEN d2 ELSE b] :
        <<b, d1, d2>> \in Vals \X Vals \X Vals,
        <<c1, c2>> \in Range(names) \X {"ch1_swire_flux", "ch1_servs_flux"} }

Kinds == {"bright", "edge", "servs", "dark"}

\* row number i of kind k; i_rcs_flux carries the row number
KindRow(k, names, i) ==
    [c \in Range(names) |->
        IF c = "i_rcs_flux" THEN i
        ELSE IF k = "edge" /\ c = "F_MIPS_24" THEN DefaultLim
        ELSE IF k = "servs" /\ c = "ch1_swire_flux" THEN Low
        ELSE IF k = "dark" /\ c \in {"ch1_swire_flux", "ch1_servs_flux"} THEN Low
        ELSE High]

\* n rows of kind a followed by m rows of kind b
BlockRows(names, a, n, b, m) ==
    [i \in 1..(n + m) |-> KindRow(IF i <= n THEN a ELSE b, names, i)]

\* n rows alternating between kind a and kind b
AltRows(names, a, b, n) ==
    [i \in 1..n |-> KindRow(IF i % 2 = 1 THEN a ELSE b, names, i)]

Lengths == (0..MaxShort) \cup ((Cap - 1)..(Cap + MaxOver))

TheHeader == << <<"EXTNAME", "LOCKMAN">>, <<"TFIELDS", "13">> >>

MkFile(names, rows) ==
    [names |-> names,
     dtype |-> [i \in 1..Len(names) |-> DTypeOf(names[i])],
     rows  |-> rows,
     hdr   |-> TheHeader]

Files ==
    { MkFile(AllNames, <<r>>) : r \in UniformRows(AllNames) }
    \cup { MkFile(names, BlockRows(names, a, n, b, m)) :
             names \in Schemas, a \in Kinds, b \in Kinds,
             n \in Lengths, m \in 0..MaxTail }
    \cup { MkFile(names, AltRows(names, a, b, n)) :
             names \in Schemas, a \in Kinds, b \in Kinds, n \in Lengths }

----------------------------------------------------------------------------
(* The script *)

Init ==
    /\ file \in Files
    /\ lim \in Lims
    /\ pc = "load"
    /\ table = None
    /\ hdr = None
    /\ selection = None
    /\ idx = 0
    /\ evaluated = <<>>
    /\ new_table = None
    /\ hdul = None
    /\ output = None
    /\ calls = <<>>
    /\ failure = "none"

\* table, hdr = read_fits(...)
read_fits ==
    /\ pc = "load"
    /\ calls' = Append(calls, "loader")
    /\ \E ok \in BOOLEAN :
         IF ok
         THEN /\ table' = [names |-> file.names, dtype |-> file.dtype,
                           rows |-> file.rows]
              /\ hdr' = file.hdr
              /\ pc' = "select"
              /\ UNCHANGED failure
         ELSE /\ pc' = "crashed"
              /\ failure' = "load"
              /\ UNCHANGED <<table, hdr>>
    /\ UNCHANGED <<file, lim, selection, idx, evaluated, new_table, hdul, output>>

\* selection = Table(names = table.columns.names, dtype = table.columns.dtype)
EmptySelection_referenced(t) ==
    LET kept == NamesWithout(t.names, {"i_rcs_flux"})
    IN  [names |-> kept,
         dtype |-> [i \in 1..Len(kept) |-> DTypeOf(kept[i])],
         rows  |-> <<>>]
EmptySelection(t) == [names |-> t.names, dtype |-> t.dtype, rows |-> <<>>]

\* short_table is entered: the empty selection is created
short_table ==
    /\ pc = "select"
    /\ calls' = Append(calls, "selector")
    /\ selection' = EmptySelection(table)
    /\ idx' = 1
    /\ pc' = "scan"
    /\ UNCHANGED <<file, lim, table, hdr, evaluated, new_table, hdul, output,
                   failure>>

\* len(selection) >= 50
CapReached_gt(sel) == Len(sel.rows) > Cap
CapReached(sel) == Len(sel.rows) >= Cap

\* selection.add_row(row)
add_row_front(sel, row) == [sel EXCEPT !.rows = <<row>> \o @]
add_row_zeroed(sel, row) ==
    [sel EXCEPT !.rows = Append(@, [c \in DOMAIN row |->
                                      IF c = "i_rcs_flux" THEN 0 ELSE row[c]])]
add_row(sel, row) == [sel EXCEPT !.rows = Append(@, row)]

Note(i, r) == [index |-> i, outcome |-> Outcome(r)]

\* the source is exhausted: return(selection)
ScanExhausted ==
    /\ pc = "scan"
    /\ idx > Len(table.rows)
    /\ new_table' = selection
    /\ pc' = "write"
    /\ UNCHANGED <<file, lim, table, hdr, selection, idx, evaluated, hdul, output,
                   calls, failure>>

\* if len(selection) >= 50: break, then return(selection)
ScanBreak_evalFirst ==
    /\ pc = "scan"
    /\ idx <= Len(table.rows)
    /\ CapReached(selection)
    /\ evaluated' = Append(evaluated, Note(idx, row_is_valid(table.rows[idx], lim)))
    /\ new_table' = selection
    /\ pc' = "write"
    /\ UNCHANGED <<file, lim, table, hdr, selection, idx, hdul, output, calls,
                   failure>>
ScanBreak ==
    /\ pc = "scan"
    /\ idx <= Len(table.rows)
    /\ CapReached(selection)
    /\ new_table' = selection
    /\ pc' = "write"
    /\ UNCHANGED <<file, lim, table, hdr, selection, idx, evaluated, hdul, output,
                   calls, failure>>

\* elif row_is_valid(row, lim): the predicate raises, nothing catches it
ScanRaise_isolated ==
    /\ pc = "scan"
    /\ idx <= Len(table.rows)
    /\ ~CapReached(selection)
    /\ row_is_valid(table.rows[idx], lim).err
    /\ evaluated' = Append(evaluated, Note(idx, row_is_valid(table.rows[idx], lim)))
    /\ new_table' = selection
    /\ pc' = "write"
    /\ failure' = "predicate"
    /\ UNCHANGED <<file, lim, table, hdr, selection, idx, hdul, output, calls>>
ScanRaise ==
    /\ pc = "scan"
    /\ idx <= Len(table.rows)
    /\ ~CapReached(selection)
    /\ row_is_valid(table.rows[idx], lim).err
    /\ evaluated' = Append(evaluated, Note(idx, row_is_valid(table.rows[idx], lim)))
    /\ pc' = "crashed"
    /\ failure' = "predicate"
    /\ UNCHANGED <<file, lim, table, hdr, selection, idx, new_table, hdul, output,
                   calls>>

\* elif row_is_valid(row, lim): selection.add_row(row)
ScanAppend ==
    /\ pc = "scan"
    /\ idx <= Len(table.rows)
    /\ ~CapReached(selection)
    /\ LET r == row_is_valid(table.rows[idx], lim)
       IN  /\ ~r.err
           /\ r.val
           /\ evaluated' = Append(evaluated, Note(idx, r))
    /\ selection' = add_row(selection, table.rows[idx])
    /\ idx' = idx + 1
    /\ UNCHANGED <<file, lim, pc, table, hdr, new_table, hdul, output, calls,
                   failure>>

\* row_is_valid(row, lim) is false: next row
ScanSkip ==
    /\ pc = "scan"
    /\ idx <= Len(table.rows)
    /\ ~CapReached(selection)
    /\ LET r == row_is_valid(table.rows[idx], lim)
       IN  /\ ~r.err
           /\ ~r.val
           /\ evaluated' = Append(evaluated, Note(idx, r))
    /\ idx' = idx + 1
    /\ UNCHANGED <<file, lim, pc, table, hdr, selection, new_table, hdul, output,
                   calls, failure>>

\* fits.HDUList([fits.PrimaryHDU(), fits.BinTableHDU(new_table, header=hdr)])
HDUList_noHeader(t, h) == [primary |-> <<>>, table |-> t, header |-> <<>>]
HDUList(t, h) == [primary |-> <<>>, table |-> t, header |-> h]

\* hdul = fits.HDUList(...); hdul.writeto("LOFAR_galaxies.fits")
writeto ==
    /\ pc = "write"
    /\ calls' = Append(calls, "writer")
    /\ hdul' = HDUList(new_table, hdr)
    /\ \E ok \in BOOLEAN :
         IF ok
         THEN /\ output' = hdul'
              /\ pc' = "done"
              /\ UNCHANGED failure
         ELSE /\ pc' = "crashed"
              /\ failure' = "write"
              /\ UNCHANGED output
    /\ UNCHANGED <<file, lim, table, hdr, selection, idx, evaluated, new_table>>

Next ==
    \/ read_fits
    \/ short_table
    \/ ScanExhausted
    \/ ScanBreak
    \/ ScanRaise
    \/ ScanAppend
    \/ ScanSkip
    \/ writeto

Spec == Init /\ [][Next]_vars

----------------------------------------------------------------------------
(* What the contract says, stated independently of the evaluation order *)

Referenced == UNION {Range(Operands[k]) : k \in 1..Len(Operands)}

Conjunctive == Referenced \ {"ch1_swire_flux", "ch1_servs_flux"}

Exceeds(row, c, l) == c \in DOMAIN row /\ row[c] > l

\* every conjunctive column and one of the two ch1 columns exceed l
Qualifies(row, l) ==
    /\ \A c \in Conjunctive : Exceeds(row, c, l)
    /\ Exceeds(row, "ch1_swire_flux", l) \/ Exceeds(row, "ch1_servs_flux", l)

\* evaluating the row reads a column the row does not have
ReadsAbsent(row, l) ==
    \/ \E c \in Conjunctive \cup {"ch1_swire_flux"} : c \notin DOMAIN row
    \/ /\ ~Exceeds(row, "ch1_swire_flux", l)
       /\ "ch1_servs_flux" \notin DOMAIN row

\* the number of qualifying rows before row i
ValidBefore(rows, i, l) ==
    Cardinality({j \in 1..(i - 1) : Qualifies(rows[j], l)})

ValidCount(rows, l) == ValidBefore(rows, Len(rows) + 1, l)

\* the first n qualifying rows, in source order
RECURSIVE FirstValid(_, _, _)
FirstValid(rows, l, n) ==
    IF n = 0 \/ rows = <<>> THEN <<>>
    ELSE IF Qualifies(Head(rows), l)
         THEN <<Head(rows)>> \o FirstValid(Tail(rows), l, n - 1)
         ELSE FirstValid(Tail(rows), l, n)

Min(a, b) == IF a <= b THEN a ELSE b

Loaded == pc # "load" /\ failure # "load"
Selecting == selection # None
HasReturned == new_table # None
SelectorOver == Loaded /\ pc \notin {"select", "scan"}
EvaluatedRow(k) == table.rows[evaluated[k].index]

----------------------------------------------------------------------------
(* C1: every call of row_is_valid on a row holding the twelve columns      *)
(* returns true exactly when the ten conjunctive columns and at least one  *)
(* of ch1_swire_flux, ch1_servs_flux are strictly greater than lim.        *)
C1_PredicateContract ==
    \A k \in 1..Len(evaluated) :
        Referenced \subseteq DOMAIN EvaluatedRow(k) =>
            evaluated[k].outcome =
                (IF Qualifies(EvaluatedRow(k), lim) THEN "True" ELSE "False")

\* a row with a conjunctive column equal to lim was rejected and a row
\* accepted on ch1_servs_flux alone
C1_Witness ==
    /\ \E k \in 1..Len(evaluated) :
          /\ Referenced \subseteq DOMAIN EvaluatedRow(k)
          /\ EvaluatedRow(k)["F_MIPS_24"] = lim
          /\ \A c \in Referenced \ {"F_MIPS_24"} : EvaluatedRow(k)[c] > lim
          /\ evaluated[k].outcome = "False"
    /\ \E k \in 1..Len(evaluated) :
          /\ Referenced \subseteq DOMAIN EvaluatedRow(k)
          /\ EvaluatedRow(k)["ch1_swire_flux"] <= lim
          /\ EvaluatedRow(k)["ch1_servs_flux"] > lim
          /\ evaluated[k].outcome = "True"

(* C2: the selection never holds more than 50 rows, during the scan and    *)
(* in the returned table.                                                  *)
C2_AtMostCap ==
    /\ Selecting => Len(selection.rows) <= Cap
    /\ HasReturned => Len(new_table.rows) <= Cap

\* the cap was hit on a source with more than 50 qualifying rows
C2_Witness ==
    /\ HasReturned
    /\ Len(new_table.rows) = Cap
    /\ ValidCount(table.rows, lim) > Cap

(* C3: short_table returns exactly the first min(k, 50) qualifying rows of *)
(* the source, in source order.                                            *)
C3_FirstValidRows ==
    HasReturned =>
        /\ new_table.rows = FirstValid(table.rows, lim, Cap)
        /\ Len(new_table.rows) = Min(ValidCount(table.rows, lim), Cap)

\* a returned table that skipped unqualified rows between qualifying ones
C3_Witness ==
    /\ HasReturned
    /\ Len(new_table.rows) >= 2
    /\ Len(new_table.rows) < Len(evaluated)
    /\ "i_rcs_flux" \in Range(table.names)

(* C4 as stated: whenever a referenced column is absent from the source,   *)
(* short_table ends in a fatal error raised from the predicate.            *)
C4_AbsentColumnAlwaysFatal ==
    (SelectorOver /\ ~(Referenced \subseteq Range(table.names)))
        => failure = "predicate"

(* C4 amended: short_table ends in a fatal error raised from the predicate *)
(* exactly when the scan reaches, with fewer than 50 rows selected, a row  *)
(* whose evaluation reads an absent column; ch1_servs_flux is read only    *)
(* when ch1_swire_flux does not exceed lim.                                *)
C4_FatalWhenAbsentColumnRead ==
    SelectorOver =>
        ((failure = "predicate") <=>
            \E i \in 1..Len(table.rows) :
                /\ ReadsAbsent(table.rows[i], lim)
                /\ ValidBefore(table.rows, i, lim) < Cap)

\* the absent ch1_servs_flux was read after some rows had passed without it
C4_Witness ==
    /\ failure = "predicate"
    /\ "ch1_servs_flux" \notin Range(table.names)
    /\ Len(evaluated) > 1

(* C5: when row_is_valid raises, nothing is returned to the script, the    *)
(* writer is not invoked and no output is produced.                        *)
C5_NoPartialResult ==
    failure = "predicate" =>
        /\ pc = "crashed"
        /\ new_table = None
        /\ hdul = None
        /\ output = None
        /\ "writer" \notin Range(calls)

\* the predicate raised after rows had been accumulated
C5_Witness ==
    /\ failure = "predicate"
    /\ Len(selection.rows) > 0

(* C6: a row accepted at a threshold is accepted at every lower threshold, *)
(* and a row not accepted at a threshold is accepted at no higher one.     *)
(* Stated of the latest call: every call is the latest one in the state    *)
(* that records it, and table and lim do not change afterwards.            *)
C6_MonotoneInLim ==
    \A k \in {Len(evaluated)} \ {0} :
        /\ evaluated[k].outcome = "True" =>
              \A l1 \in Lims :
                  l1 <= lim => row_is_valid(EvaluatedRow(k), l1) = Returned(TRUE)
        /\ evaluated[k].outcome = "False" =>
              \A l2 \in Lims :
                  l2 >= lim => row_is_valid(EvaluatedRow(k), l2) # Returned(TRUE)

\* a row accepted at a threshold above the lowest one
C6_Witness ==
    \E k \in 1..Len(evaluated) :
        /\ evaluated[k].outcome = "True"
        /\ \E l1 \in Lims : l1 < lim

(* C7: the selection and the returned table have the names and dtypes of   *)
(* the source, in the same order; an empty source gives an empty table     *)
(* with that schema and no error.                                          *)
C7_SchemaPreserved ==
    /\ Selecting =>
          /\ selection.names = table.names
          /\ selection.dtype = table.dtype
    /\ HasReturned =>
          /\ new_table.names = table.names
          /\ new_table.dtype = table.dtype
    /\ (SelectorOver /\ table.rows = <<>>) =>
          /\ failure # "predicate"
          /\ HasReturned
          /\ new_table.rows = <<>>

\* an empty source has been selected from
C7_Witness ==
    /\ HasReturned
    /\ table.rows = <<>>
    /\ new_table = [names |-> file.names, dtype |-> file.dtype, rows |-> <<>>]

(* C8: loader, selector and writer run in that order, each at most once;   *)
(* the writer runs only after short_table returned, gets the returned      *)
(* table and the loader's header, and never runs after a failure.          *)
C8_StepOrder ==
    /\ \E n \in 0..3 : calls = SubSeq(<<"loader", "selector", "writer">>, 1, n)
    /\ "writer" \in Range(calls) =>
          /\ HasReturned
          /\ failure \in {"none", "write"}
          /\ hdul.table = new_table
          /\ hdul.header = file.hdr
    /\ output # None => output = hdul
    /\ failure \in {"load", "predicate"} => "writer" \notin Range(calls)

\* the writer has run on a non-empty selection
C8_Witness ==
    /\ pc = "done"
    /\ output # None
    /\ Len(output.table.rows) > 0

(* C9: the predicate is evaluated once on each row of the source prefix    *)
(* that ends at the 50th qualifying row (the whole source if there are     *)
(* fewer), in increasing order, and on no later row.                       *)
C9_EvaluatedPrefix ==
    /\ \A k \in 1..Len(evaluated) : evaluated[k].index = k
    /\ pc = "scan" => Len(evaluated) = idx - 1
    /\ HasReturned =>
          IF ValidCount(table.rows, lim) >= Cap
          THEN /\ Qualifies(table.rows[Len(evaluated)], lim)
               /\ ValidBefore(table.rows, Len(evaluated), lim) = Cap - 1
          ELSE Len(evaluated) = Len(table.rows)

\* the scan stopped at the cap with source rows left unevaluated
C9_Witness ==
    /\ HasReturned
    /\ Len(new_table.rows) = Cap
    /\ Len(evaluated) < Len(table.rows)

(* C10: once loaded, the source table and the header never change, and the *)
(* selection changes only by appending the current source row unmodified.  *)
C10_SourceUnchanged ==
    [][ /\ file' = file
        /\ pc # "load" => (table' = table /\ hdr' = hdr)
        /\ pc # "scan" /\ pc # "select" => selection' = selection
        /\ (pc = "scan" /\ selection' # selection) =>
              selection' = [selection EXCEPT !.rows = Append(@, table.rows[idx])]
      ]_vars

\* rows were appended and the output written
C10_Witness ==
    /\ pc = "done"
    /\ Len(selection.rows) > 1
    /\ "i_rcs_flux" \in Range(table.names)

====
